---- MODULE Spec2Model ----
(***************************************************************************)
(* Workspace Launcher (src/Launcher/native/launcher.c).                    *)
(*                                                                         *)
(* The launcher is one sequential program.  Its state is WinMain's locals  *)
(* (current_version, release), the locals of the function it is in, the    *)
(* position of control (pc) and the history of what it did to the outside  *)
(* world (dialogs shown, processes it tried to create, the file it wrote). *)
(* C strings are sequences of one-character strings.                       *)
(***************************************************************************)
EXTENDS Naturals, Integers, Sequences, FiniteSets

VARIABLES
    pc,               \* position of control in WinMain / DownloadFile
    current_version,  \* WinMain's char current_version[32]
    version_file,     \* the marker file ReadVersionFile was given
    buffer,           \* CheckForUpdates: the bytes InternetReadFile delivered
    result,           \* CheckForUpdates: BOOL result at the cleanup label
    release,          \* WinMain's ReleaseInfo release
    update,           \* the value CheckForUpdates returned
    cfu_fault,        \* CheckForUpdates: which network step failed, or "none"
    answer,           \* the value ShowUpdateDialog returned
    hwnd,             \* the progress window handle (FALSE is NULL)
    dl_fault,         \* DownloadFile: which step failed, "none" if none did
    dl_result,        \* the value DownloadFile returned
    dest_file,        \* bytes written to the installer file
    delivered,        \* bytes the download source has delivered, in order
    progress,         \* the counts shown in the progress window, in order
    held,             \* handles of the running function that are not NULL
    opens,            \* per handle, how often it was opened
    closes,           \* per handle, how often it was closed
    totalBytes,       \* DownloadFile's DWORD totalBytes, as halves hi and lo
    reads,            \* InternetReadFile calls made by the download loop
    log,              \* what the launcher did, in order
    created,          \* child processes successfully created, in order
    exit_code         \* WinMain's return value, -1 while running

vars == <<pc, current_version, version_file, buffer, result, release, update,
          cfu_fault, answer, hwnd, dl_fault, dl_result, dest_file, delivered,
          progress, held, opens, closes, totalBytes, reads, log, created,
          exit_code>>

(* Bounds of the model. *)
MaxPieces == 2
MaxReads == 3
WrapMargin == 3

(* Program constants. *)
BUFFER_SIZE == 8192
VersionSize == 32
DownloadUrlSize == 512
FilenameSize == 128
HalfWord == 65536



(* String literals of the source. *)
Q == "\""
TagNameKey == <<"\"", "t", "a", "g", "_", "n", "a", "m", "e", "\"">>
BrowserDownloadUrlKey == <<"\"", "b", "r", "o", "w", "s", "e", "r", "_", "d", "o", "w", "n", "l", "o", "a", "d", "_", "u", "r", "l", "\"">>
DotExe == <<".", "e", "x", "e">>
DefaultVersion == <<"0", ".", "0", ".", "0">>

(* Inputs: pieces of feed documents. *)
PieceTagV1 ==
    <<"\"", "t", "a", "g", "_", "n", "a", "m", "e", "\"", ":", "\"", "v", "1", "\"">>
PieceTag2 ==
    <<"\"", "t", "a", "g", "_", "n", "a", "m", "e", "\"", ":", "\"", "2", "\"">>
PieceTagBare ==
    <<"\"", "t", "a", "g", "_", "n", "a", "m", "e", "\"", ":", "5">>
PieceTagLong ==
    <<"\"", "t", "a", "g", "_", "n", "a", "m", "e", "\"", ":", "\"", "v", "9", "9", "9", "9", "9", "9", "9", "9", "9", "9", "9", "9", "9", "9", "9", "9", "9", "9", "9", "9", "9", "9", "9", "9", "9", "9", "9", "9", "9", "9", "9", "9", "\"">>
PieceUrlExe ==
    <<"\"", "b", "r", "o", "w", "s", "e", "r", "_", "d", "o", "w", "n", "l", "o", "a", "d", "_", "u", "r", "l", "\"", ":", "\"", "h", "/", "a", ".", "e", "x", "e", "\"">>
PieceUrlZip ==
    <<"\"", "b", "r", "o", "w", "s", "e", "r", "_", "d", "o", "w", "n", "l", "o", "a", "d", "_", "u", "r", "l", "\"", ":", "\"", "h", "/", "b", ".", "z", "i", "p", "\"">>
PieceUrlExeFlat ==
    <<"\"", "b", "r", "o", "w", "s", "e", "r", "_", "d", "o", "w", "n", "l", "o", "a", "d", "_", "u", "r", "l", "\"", ":", "\"", "c", ".", "e", "x", "e", "\"">>
PieceNameExe ==
    <<"\"", "n", "a", "m", "e", "\"", ":", "\"", "d", ".", "e", "x", "e", "\"">>
Pieces ==
    {PieceTagV1, PieceTag2, PieceTagBare, PieceTagLong, PieceUrlExe,
     PieceUrlZip, PieceUrlExeFlat, PieceNameExe}

(* Inputs: contents of the version marker file. *)
VersionContents ==
    {<<>>,
     <<"1">>,
     <<"v", "1">>,
     <<"v", "1", "\n">>,
     <<"1", "\r", "\n">>,
     <<"2", "\n">>,
     <<"v">>,
     <<"\n">>,
     <<"0", ".", "0", ".", "0", "\n">>,
     <<"v", "9", "9", "9", "9", "9", "9", "9", "9", "9", "9", "9", "9", "9", "9", "9", "9", "9", "9", "9", "9", "9", "9", "9", "9", "9", "9", "9", "9", "9", "9", "9", "9", "\n">>}

(* What an uninitialised current_version may hold. *)
StackGarbage ==
    {<<"0", ".", "0", ".", "0">>, <<>>, <<"1">>, <<"?">>}

(***************************************************************************)
(* The C library functions the source calls, on sequences of characters.   *)
(* A position is an index into the sequence; 0 stands for NULL.            *)
(***************************************************************************)
Min(S) == CHOOSE x \in S : \A y \in S : x <= y
Max(S) == CHOOSE x \in S : \A y \in S : x >= y

\* strstr(s + from - 1, pat): the first occurrence of pat at or after from.
StrStr(s, pat, from) ==
    LET hits == {i \in from..(Len(s) - Len(pat) + 1) :
                    SubSeq(s, i, i + Len(pat) - 1) = pat}
    IN  IF hits = {} THEN 0 ELSE Min(hits)

\* strchr(s + from - 1, c)
StrChr(s, c, from) ==
    LET hits == {i \in from..Len(s) : s[i] = c}
    IN  IF hits = {} THEN 0 ELSE Min(hits)

\* strrchr(s, c)
StrRChr(s, c) ==
    LET hits == {i \in 1..Len(s) : s[i] = c}
    IN  IF hits = {} THEN 0 ELSE Max(hits)

\* fgets(version, size, file): at most size-1 characters, up to and
\* including the first newline.
FGets(content, size) ==
    LET nl  == StrChr(content, "\n", 1)
        eol == IF nl = 0 THEN Len(content) ELSE nl
    IN  SubSeq(content, 1, IF eol < size - 1 THEN eol ELSE size - 1)

RECURSIVE StripLineEnd(_)
StripLineEnd(s) ==
    IF Len(s) > 0 /\ s[Len(s)] \in {"\n", "\r"}
    THEN StripLineEnd(SubSeq(s, 1, Len(s) - 1))
    ELSE s

\* if (version[0] == 'v') memmove(version, version + 1, len);
StripV(s) == IF Len(s) > 0 /\ s[1] = "v" THEN Tail(s) ELSE s

(***************************************************************************)
(* ReadVersionFile: the set of values current_version may hold on return.  *)
(* A file that cannot be opened gives "0.0.0".  A file that opens but      *)
(* gives fgets nothing leaves the caller's buffer as it was: WinMain never *)
(* initialises it, so it holds whatever the stack held.                    *)
(***************************************************************************)
NoFile == [opens |-> FALSE, content |-> <<>>]

VersionFiles ==
    {NoFile} \cup {[opens |-> TRUE, content |-> c] : c \in VersionContents}

ReadVersionFile(file) ==
    IF ~file.opens THEN {DefaultVersion}
    ELSE IF file.content = <<>> THEN StackGarbage
    ELSE {StripV(StripLineEnd(FGets(file.content, VersionSize)))}

(***************************************************************************)
(* CheckForUpdates, the text scan of the response buffer.                  *)
(***************************************************************************)
NoRelease == [version |-> <<>>, download_url |-> <<>>, filename |-> <<>>]

\* Lines 102-124: the value of release->version after the tag_name scan.
ParseVersion(buf, old) ==
    LET tag_name == StrStr(buf, TagNameKey, 1)
        colon    == IF tag_name = 0 THEN 0 ELSE StrChr(buf, ":", tag_name)
        quote    == IF colon = 0 THEN 0 ELSE StrChr(buf, Q, colon)
        start    == quote + 1
        end      == IF quote = 0 THEN 0 ELSE StrChr(buf, Q, start)
    IN  IF end = 0 THEN old
        ELSE IF end - start < VersionSize
             THEN StripV(SubSeq(buf, start, end - 1))
             ELSE old

\* Line 137: if (strstr(url_start, ".exe")).  The search runs from the
\* start of the value to the end of the buffer.
IsExe(buf, url_start, url_end) == StrStr(buf, DotExe, url_start) # 0

\* Lines 145-148: the filename after strrchr(download_url, '/').
\* strcpy_s needs the name to fit filename[FilenameSize]; every URL of
\* FeedDocuments is shorter than that.
ParseFilename(url, old) ==
    LET slash == StrRChr(url, "/")
    IN  IF slash = 0 THEN old ELSE SubSeq(url, slash + 1, Len(url))

\* Lines 127-158: the asset loop, entered with browser_download at
\* position pos (0 when strstr found nothing).
RECURSIVE ScanAssets(_, _, _)
ScanAssets(buf, pos, rel) ==
    IF pos = 0 THEN [result |-> FALSE, release |-> rel]
    ELSE
        LET colon     == StrChr(buf, ":", pos)
            quote     == IF colon = 0 THEN 0 ELSE StrChr(buf, Q, colon)
            url_start == quote + 1
            url_end   == IF quote = 0 THEN 0 ELSE StrChr(buf, Q, url_start)
            url_len   == url_end - url_start
        IN  IF /\ url_end # 0
               /\ IsExe(buf, url_start, url_end)
               /\ url_len < DownloadUrlSize
            THEN LET url == SubSeq(buf, url_start, url_end - 1)
                 IN  [result  |-> TRUE,
                      release |-> [rel EXCEPT
                                     !.download_url = url,
                                     !.filename = ParseFilename(url, rel.filename)]]
            ELSE ScanAssets(buf, StrStr(buf, BrowserDownloadUrlKey, pos + 1), rel)

\* Lines 98-159 for a successful read of buf.
ParseFeed(buf, rel) ==
    ScanAssets(buf, StrStr(buf, BrowserDownloadUrlKey, 1),
               [rel EXCEPT !.version = ParseVersion(buf, rel.version)])

UpdateDecision_ResultOnly(res, version, current) == res

UpdateDecision_VersionOnly(res, version, current) == version # current

\* Line 165: return result && strcmp(release->version, current_version) != 0;
UpdateDecision(res, version, current) == res /\ version # current

(* The feed documents: up to MaxPieces pieces, one after the other. *)
RECURSIVE Documents(_)
Documents(n) ==
    IF n = 0 THEN {<<>>}
    ELSE LET shorter == Documents(n - 1)
         IN  shorter \cup {d \o p : d \in shorter, p \in Pieces}

FeedDocuments == Documents(MaxPieces) \ {<<>>}

(***************************************************************************)
(* DownloadFile and WinMain: the decisions the control flow rests on.      *)
(***************************************************************************)
OpenFaults == {"InternetOpenA", "InternetOpenUrlA", "fopen_s"}

\* The bytes one InternetReadFile call of the download loop may deliver.
Chunks == {<<1>>, <<2, 3>>}

\* A DWORD is 32 bits wide and is kept as two 16-bit halves.
\* Line 189: totalBytes += bytesRead, with bytesRead <= BUFFER_SIZE.
DWordAdd(total, n) ==
    LET lo == total.lo + n
    IN  [hi |-> (total.hi + lo \div HalfWord) % HalfWord, lo |-> lo % HalfWord]

\* Line 188: fwrite(buffer, 1, bytesRead, file) appends the first n bytes
\* of the read buffer.  Its return value is not looked at.
FWrite_Rewrite(file, buf, n) == SubSeq(buf, 1, n)

FWrite(file, buf, n) == file \o SubSeq(buf, 1, n)

\* The handles of CheckForUpdates and DownloadFile.
CfuHandles == {"CheckForUpdates.hInternet", "CheckForUpdates.hConnect"}
DlHandles == {"DownloadFile.hInternet", "DownloadFile.hConnect",
              "DownloadFile.file"}
Handles == CfuHandles \cup DlHandles

\* Lines 90-95: the handles CheckForUpdates holds when it reaches cleanup.
CfuOpened(fault) ==
    IF fault = "InternetOpenA" THEN {}
    ELSE IF fault = "InternetOpenUrlA" THEN {"CheckForUpdates.hInternet"}
    ELSE CfuHandles

\* Lines 178-185: the handles DownloadFile holds after its three opens.
DlOpened(fault) ==
    IF fault = "InternetOpenA" THEN {}
    ELSE IF fault = "InternetOpenUrlA" THEN {"DownloadFile.hInternet"}
    ELSE IF fault = "fopen_s"
         THEN {"DownloadFile.hInternet", "DownloadFile.hConnect"}
         ELSE DlHandles

Cleanup_LeaksFile(nonnull) == nonnull \ {"DownloadFile.file"}

\* Lines 161-163 and 201-204: the cleanup label closes each handle that
\* is not NULL.
Cleanup(nonnull) == nonnull

\* The counts after each handle of S was opened, or closed, once more.
Bump(count, S) ==
    [h \in Handles |-> IF h \in S THEN count[h] + 1 ELSE count[h]]

DownloadResult_InitTrue(fault) == TRUE

\* Lines 173-206: result is FALSE until the read loop has ended; each of
\* the three opens jumps to cleanup on failure, the loop never does.
DownloadResult(fault) == fault \notin OpenFaults

UserAccepted_NotNo(ans) == ans # "IDNO"

UserAccepted_Always(ans) == TRUE

\* Line 292: ShowUpdateDialog(...) == IDYES
UserAccepted(ans) == ans = "IDYES"

AfterInstaller_NoReturn(ok) == "launch_main"

AfterInstaller_ExitOnFailure(ok) == "done"

\* Lines 314-318: return 0 after a successful installer launch; after a
\* failed one control leaves the if blocks and reaches line 326.
AfterInstaller(ok) == IF ok THEN "done" ELSE "launch_main"

AfterDownloadFailed_Exits == "done"

\* Lines 319-326: after the download error control reaches line 326.
AfterDownloadFailed == "launch_main"

MainAppExitCode_AlwaysZero(ok) == 0

\* Lines 328-335
MainAppExitCode(ok) == IF ok THEN 0 ELSE 1

TypeOK ==
    /\ pc \in {"start", "read_version", "check", "checked", "create_window",
               "dl_open", "dl_loop", "downloaded", "launch_main", "done"}
    /\ version_file \in VersionFiles
    /\ result \in BOOLEAN /\ update \in BOOLEAN
    /\ hwnd \in BOOLEAN /\ dl_result \in BOOLEAN
    /\ answer \in {"none", "IDYES", "IDNO", "failed"}
    /\ dl_fault \in OpenFaults \cup {"none", "InternetReadFile"}
    /\ cfu_fault \in {"none", "InternetOpenA", "InternetOpenUrlA",
                      "InternetReadFile"}
    /\ held \subseteq Handles
    /\ opens \in [Handles -> 0..1]
    /\ closes \in [Handles -> 0..1]
    /\ Len(progress) <= reads
    /\ totalBytes \in [hi : 0..(HalfWord - 1), lo : 0..(HalfWord - 1)]
    /\ reads \in 0..(MaxReads + 1)
    /\ exit_code \in {-1, 0, 1}

Init ==
    /\ pc = "start"
    /\ version_file \in VersionFiles
    /\ current_version = <<>>
    /\ buffer = <<>>
    /\ result = FALSE
    /\ release = NoRelease
    /\ update = FALSE
    /\ answer = "none"
    /\ hwnd = FALSE
    /\ dl_fault = "none"
    /\ dl_result = FALSE
    /\ dest_file = <<>>
    /\ delivered = <<>>
    /\ progress = <<>>
    /\ held = {}
    /\ opens = [h \in Handles |-> 0]
    /\ closes = [h \in Handles |-> 0]
    /\ cfu_fault = "none"
    /\ totalBytes = [hi |-> 0, lo |-> 0]
    /\ reads = 0
    /\ log = <<>>
    /\ created = <<>>
    /\ exit_code = -1

\* Lines 281-284
GetAppDirectory(ok) ==
    /\ pc = "start"
    /\ IF ok
       THEN /\ pc' = "read_version"
            /\ UNCHANGED <<log, exit_code, cfu_fault, delivered, progress, held,
                   opens, closes>>
       ELSE /\ log' = Append(log, "ShowError: Failed to get application directory")
            /\ exit_code' = 1
            /\ pc' = "done"
    /\ UNCHANGED <<current_version, version_file, buffer, result, release,
                   update, answer, hwnd, dl_fault, dl_result, dest_file,
                   totalBytes, reads, created, cfu_fault, delivered, progress,
                   held, opens, closes>>

\* Lines 287-288; the return value of ReadVersionFile is discarded.
ReadVersion ==
    /\ pc = "read_version"
    /\ current_version' \in ReadVersionFile(version_file)
    /\ pc' = "check"
    /\ UNCHANGED <<version_file, buffer, result, release, update, answer,
                   hwnd, dl_fault, dl_result, dest_file, totalBytes, reads,
                   log, created, exit_code, cfu_fault, delivered, progress,
                   held, opens, closes>>

\* Lines 80-166 when a network step fails: InternetOpenA or
\* InternetOpenUrlA returns NULL, or InternetReadFile returns FALSE or
\* delivers no bytes.
CheckForUpdatesFails(fault) ==
    /\ pc = "check"
    /\ buffer' = <<>>
    /\ result' = FALSE
    /\ update' = UpdateDecision(FALSE, release.version, current_version)
    /\ pc' = "checked"
    /\ cfu_fault' = fault
    /\ opens' = Bump(opens, CfuOpened(fault))
    /\ closes' = Bump(closes, Cleanup(CfuOpened(fault)))
    /\ UNCHANGED <<current_version, version_file, release, answer, hwnd,
                   dl_fault, dl_result, dest_file, totalBytes, reads, log,
                   created, exit_code, delivered, progress, held>>

\* Lines 80-166 when InternetReadFile delivers the bytes doc.
CheckForUpdates(doc) ==
    /\ pc = "check"
    /\ Len(doc) <= BUFFER_SIZE - 1
    /\ LET parsed == ParseFeed(doc, release)
       IN  /\ buffer' = doc
           /\ result' = parsed.result
           /\ release' = parsed.release
           /\ update' = UpdateDecision(parsed.result, parsed.release.version,
                                       current_version)
    /\ pc' = "checked"
    /\ opens' = Bump(opens, CfuOpened("none"))
    /\ closes' = Bump(closes, Cleanup(CfuOpened("none")))
    /\ UNCHANGED <<current_version, version_file, answer, hwnd, dl_fault,
                   dl_result, dest_file, totalBytes, reads, log, created,
                   exit_code, cfu_fault, delivered, progress, held>>

\* Line 291 when CheckForUpdates returned FALSE.  The locals of
\* CheckForUpdates are gone once it has returned.
NoUpdate ==
    /\ pc = "checked"
    /\ ~update
    /\ pc' = "launch_main"
    /\ buffer' = <<>>
    /\ result' = FALSE
    /\ UNCHANGED <<current_version, version_file, release, update, answer,
                   hwnd, dl_fault, dl_result, dest_file, totalBytes, reads,
                   log, created, exit_code, cfu_fault, delivered, progress,
                   held, opens, closes>>

\* Lines 291-292: the prompt and the user's answer.
ShowUpdateDialog(ans) ==
    /\ pc = "checked"
    /\ update
    /\ answer' = ans
    /\ log' = Append(log, "ShowUpdateDialog")
    /\ pc' = IF UserAccepted(ans) THEN "create_window" ELSE "launch_main"
    /\ buffer' = <<>>
    /\ result' = FALSE
    /\ UNCHANGED <<current_version, version_file, release, update, hwnd,
                   dl_fault, dl_result, dest_file, totalBytes, reads, created,
                   exit_code, cfu_fault, delivered, progress, held, opens,
                   closes>>

\* Lines 294-308: the progress window may fail to be created.
CreateProgressWindow(h) ==
    /\ pc = "create_window"
    /\ hwnd' = h
    /\ pc' = "dl_open"
    /\ UNCHANGED <<current_version, version_file, buffer, result, release,
                   update, answer, dl_fault, dl_result, dest_file, totalBytes,
                   reads, log, created, exit_code, cfu_fault, delivered,
                   progress, held, opens, closes>>

\* Lines 310, 169-185 and, on failure, 201-206.
DownloadOpen(fault) ==
    /\ pc = "dl_open"
    /\ log' = Append(log, "DownloadFile")
    /\ dl_fault' = fault
    /\ IF fault \in OpenFaults
       THEN /\ dl_result' = DownloadResult(fault)
            /\ pc' = "downloaded"
       ELSE /\ pc' = "dl_loop"
            /\ UNCHANGED dl_result
    /\ opens' = Bump(opens, DlOpened(fault))
    /\ IF fault \in OpenFaults
       THEN /\ closes' = Bump(closes, Cleanup(DlOpened(fault)))
            /\ held' = {}
       ELSE /\ held' = DlOpened(fault)
            /\ UNCHANGED closes
    /\ UNCHANGED <<current_version, version_file, buffer, result, release,
                   update, answer, hwnd, dest_file, totalBytes, reads,
                   created, exit_code, cfu_fault, delivered, progress>>

\* Lines 187-197: one turn of the loop, InternetReadFile delivering chunk.
DownloadChunk(chunk) ==
    /\ pc = "dl_loop"
    /\ reads < MaxReads
    /\ Len(chunk) <= BUFFER_SIZE
    /\ reads' = reads + 1
    /\ delivered' = delivered \o chunk
    /\ dest_file' = FWrite(dest_file, chunk, Len(chunk))
    /\ totalBytes' = DWordAdd(totalBytes, Len(chunk))
    /\ progress' = IF hwnd THEN Append(progress, totalBytes') ELSE progress
    /\ UNCHANGED <<pc, current_version, version_file, buffer, result, release,
                   update, answer, hwnd, dl_fault, dl_result, log, created,
                   exit_code, cfu_fault, held, opens, closes>>

\* Lines 187, 199-206: the loop ends when InternetReadFile delivers no
\* bytes (ok) or returns FALSE (~ok).
DownloadEnd(ok) ==
    /\ pc = "dl_loop"
    /\ reads' = reads + 1
    /\ dl_fault' = IF ok THEN "none" ELSE "InternetReadFile"
    /\ dl_result' = DownloadResult(dl_fault')
    /\ pc' = "downloaded"
    /\ closes' = Bump(closes, Cleanup(held))
    /\ held' = {}
    /\ UNCHANGED <<current_version, version_file, buffer, result, release,
                   update, answer, hwnd, dest_file, totalBytes, log, created,
                   exit_code, cfu_fault, delivered, progress, opens>>

\* Lines 319-322
DownloadFailed ==
    /\ pc = "downloaded"
    /\ ~dl_result
    /\ hwnd' = FALSE
    /\ log' = Append(log, "ShowError: Failed to download update")
    /\ pc' = AfterDownloadFailed
    /\ UNCHANGED <<current_version, version_file, buffer, result, release,
                   update, answer, dl_fault, dl_result, dest_file, totalBytes,
                   reads, created, exit_code, cfu_fault, delivered, progress,
                   held, opens, closes>>

\* Lines 310-318 and 210-232
LaunchInstaller(ok) ==
    /\ pc = "downloaded"
    /\ dl_result
    /\ hwnd' = FALSE
    /\ pc' = AfterInstaller(ok)
    /\ IF ok
       THEN /\ log' = Append(log, "LaunchInstaller")
            /\ created' = Append(created, "installer")
       ELSE /\ log' = log \o <<"LaunchInstaller",
                                "ShowError: Failed to launch installer">>
            /\ UNCHANGED created
    /\ exit_code' = IF pc' = "done" THEN 0 ELSE exit_code
    /\ UNCHANGED <<current_version, version_file, buffer, result, release,
                   update, answer, dl_fault, dl_result, dest_file, totalBytes,
                   reads, cfu_fault, delivered, progress, held, opens, closes>>

\* Lines 326-335 and 235-255
LaunchMainApp(ok) ==
    /\ pc = "launch_main"
    /\ IF ok
       THEN /\ log' = Append(log, "LaunchMainApp")
            /\ created' = Append(created, "main")
       ELSE /\ log' = log \o <<"LaunchMainApp",
                                "ShowError: Failed to launch workspace.exe">>
            /\ UNCHANGED created
    /\ exit_code' = MainAppExitCode(ok)
    /\ pc' = "done"
    /\ UNCHANGED <<current_version, version_file, buffer, result, release,
                   update, answer, hwnd, dl_fault, dl_result, dest_file,
                   totalBytes, reads, cfu_fault, delivered, progress, held,
                   opens, closes>>

\* Every step but a further chunk from the download source.
Proceed ==
    \/ \E ok \in BOOLEAN : GetAppDirectory(ok)
    \/ ReadVersion
    \/ \E fault \in {"InternetOpenA", "InternetOpenUrlA", "InternetReadFile"} :
          CheckForUpdatesFails(fault)
    \/ \E doc \in FeedDocuments : CheckForUpdates(doc)
    \/ NoUpdate
    \/ \E ans \in {"IDYES", "IDNO", "failed"} : ShowUpdateDialog(ans)
    \/ \E h \in BOOLEAN : CreateProgressWindow(h)
    \/ \E fault \in OpenFaults \cup {"none"} : DownloadOpen(fault)
    \/ \E ok \in BOOLEAN : DownloadEnd(ok)
    \/ DownloadFailed
    \/ \E ok \in BOOLEAN : LaunchInstaller(ok)
    \/ \E ok \in BOOLEAN : LaunchMainApp(ok)

Next ==
    \/ Proceed
    \/ \E chunk \in Chunks : DownloadChunk(chunk)

Spec == Init /\ [][Next]_vars

\* Every blocking call returns, and the download source does not deliver
\* chunks for ever: a step other than a further chunk is eventually taken.
FairSpec == Spec /\ WF_vars(Proceed)

(***************************************************************************)
(* The download loop late in a long transfer: the run of WinMain with no   *)
(* version file and a feed of one v1 release has reached the loop and      *)
(* totalBytes is within WrapMargin bytes of the largest DWORD.  reads,     *)
(* dest_file, delivered and progress count from this point on.             *)
(***************************************************************************)
WrapStarts ==
    {[hi |-> HalfWord - 1, lo |-> HalfWord - k] : k \in 1..WrapMargin}

InitWrap ==
    /\ pc = "dl_loop"
    /\ version_file = NoFile
    /\ current_version = DefaultVersion
    /\ buffer = <<>>
    /\ result = FALSE
    /\ release = ParseFeed(PieceTagV1 \o PieceUrlExe, NoRelease).release
    /\ update = TRUE
    /\ cfu_fault = "none"
    /\ answer = "IDYES"
    /\ hwnd \in BOOLEAN
    /\ dl_fault = "none"
    /\ dl_result = FALSE
    /\ dest_file = <<>>
    /\ delivered = <<>>
    /\ progress = <<>>
    /\ held = DlHandles
    /\ opens = [h \in Handles |-> 1]
    /\ closes = [h \in Handles |-> IF h \in CfuHandles THEN 1 ELSE 0]
    /\ totalBytes \in WrapStarts
    /\ reads = 0
    /\ log = <<"ShowUpdateDialog", "DownloadFile">>
    /\ created = <<>>
    /\ exit_code = -1

NextWrap ==
    \/ \E chunk \in Chunks : DownloadChunk(chunk)
    \/ \E ok \in BOOLEAN : DownloadEnd(ok)
    \/ \E ok \in BOOLEAN : LaunchInstaller(ok)
    \/ \E ok \in BOOLEAN : LaunchMainApp(ok)

SpecWrap == InitWrap /\ [][NextWrap]_vars

(***************************************************************************)
(* The history of a run.                                                   *)
(***************************************************************************)
Occurs(e) == \E i \in 1..Len(log) : log[i] = e

Count(e) == Cardinality({i \in 1..Len(log) : log[i] = e})

Before(e, f) == \E i, j \in 1..Len(log) : i < j /\ log[i] = e /\ log[j] = f

\* Every e in the log is directly followed by f.
FollowedBy(e, f) ==
    \A i \in 1..Len(log) : log[i] = e => i < Len(log) /\ log[i + 1] = f

InstallerError == "ShowError: Failed to launch installer"
DownloadError == "ShowError: Failed to download update"
MainAppError == "ShowError: Failed to launch workspace.exe"
AppDirError == "ShowError: Failed to get application directory"

(***************************************************************************)
(* The entries of a feed document: the positions of the                    *)
(* browser_download_url key and, for each, its quoted value.               *)
(***************************************************************************)
Entries(buf) ==
    {p \in 1..(Len(buf) - Len(BrowserDownloadUrlKey) + 1) :
        SubSeq(buf, p, p + Len(BrowserDownloadUrlKey) - 1) = BrowserDownloadUrlKey}

ValueStart(buf, p) ==
    LET colon == StrChr(buf, ":", p)
        quote == IF colon = 0 THEN 0 ELSE StrChr(buf, Q, colon)
    IN  IF quote = 0 THEN 0 ELSE quote + 1

HasValue(buf, p) ==
    ValueStart(buf, p) # 0 /\ StrChr(buf, Q, ValueStart(buf, p)) # 0

ValueOf(buf, p) ==
    SubSeq(buf, ValueStart(buf, p), StrChr(buf, Q, ValueStart(buf, p)) - 1)

ExeEntries(buf) ==
    {p \in Entries(buf) :
        HasValue(buf, p) /\ StrStr(ValueOf(buf, p), DotExe, 1) # 0}

C2_ReadFailureFailsDownload ==
    (dl_fault = "InternetReadFile" /\ pc \in {"downloaded", "launch_main", "done"}) =>
        /\ ~dl_result
        /\ ~Occurs("LaunchInstaller")
        /\ pc # "downloaded" => Occurs(DownloadError)

(***************************************************************************)
(* C3.  If DownloadFile fails to open the session, the URL or the          *)
(* destination file, it returns failure without writing anything; the      *)
(* download error is shown exactly once, LaunchInstaller is never          *)
(* attempted, and LaunchMainApp is attempted next.                         *)
(***************************************************************************)
C3_OpenFailure ==
    dl_fault \in OpenFaults =>
        /\ ~dl_result
        /\ dest_file = <<>>
        /\ ~Occurs("LaunchInstaller")
        /\ \/ pc = "downloaded" /\ Count(DownloadError) = 0
           \/ /\ pc = "launch_main"
              /\ Count(DownloadError) = 1
              /\ log[Len(log)] = DownloadError
           \/ /\ pc = "done"
              /\ Count(DownloadError) = 1
              /\ FollowedBy(DownloadError, "LaunchMainApp")

C3_Witness ==
    /\ dl_fault = "fopen_s"
    /\ pc = "done"
    /\ Before(DownloadError, "LaunchMainApp")

(***************************************************************************)
(* C4.  For every feed document that contains no tag_name key,             *)
(* CheckForUpdates returns FALSE, even when the document contains an .exe  *)
(* asset URL.                                                              *)
(***************************************************************************)
C4_NoTagNoUpdate ==
    (pc = "checked" /\ buffer # <<>> /\ StrStr(buffer, TagNameKey, 1) = 0) =>
        ~update

(***************************************************************************)
(* C5.  For every feed document in which no browser_download_url value     *)
(* contains .exe, CheckForUpdates finds no asset: it returns FALSE and     *)
(* release.download_url is not set.                                        *)
(***************************************************************************)
C5_NoExeNoAsset ==
    (pc = "checked" /\ buffer # <<>> /\ ExeEntries(buffer) = {}) =>
        /\ ~result
        /\ ~update
        /\ release.download_url = <<>>

(***************************************************************************)
(* C6.  The chosen asset URL is the value of the first                     *)
(* browser_download_url entry, in document order, whose own quoted value   *)
(* contains .exe.                                                          *)
(***************************************************************************)
C6_FirstExeChosen ==
    (pc = "checked" /\ ExeEntries(buffer) # {}) =>
        /\ result
        /\ release.download_url = ValueOf(buffer, Min(ExeEntries(buffer)))

(***************************************************************************)
(* C7.  CheckForUpdates returns TRUE exactly when the scan extracted a     *)
(* release and its normalized version is not equal, byte for byte, to the  *)
(* local version.                                                          *)
(***************************************************************************)
C7_UpdateDecision ==
    pc = "checked" =>
        /\ update <=> (result /\ release.version # current_version)
        /\ release.version = current_version => ~update

C7_Witness ==
    /\ pc = "checked"
    /\ current_version = <<"2">>
    /\ release.version = <<"1">>
    /\ update

(***************************************************************************)
(* C8.  For every missing or malformed version marker file (absent,        *)
(* unopenable, or opened but with no readable first line) the local        *)
(* version is "0.0.0" after ReadVersionFile.                               *)
(***************************************************************************)
C8_DefaultVersion ==
    (pc \notin {"start", "read_version"}
        /\ ~Occurs(AppDirError)
        /\ (~version_file.opens \/ FGets(version_file.content, VersionSize) = <<>>)) =>
        current_version = DefaultVersion

(***************************************************************************)
(* C9.  Whenever an update is offered and the user answers anything other  *)
(* than Yes, no download is attempted, no installer is launched,           *)
(* LaunchMainApp is attempted next, and the exit code is 0 if that launch  *)
(* succeeds.                                                               *)
(***************************************************************************)
C9_Declined ==
    answer \in {"IDNO", "failed"} =>
        /\ ~Occurs("DownloadFile")
        /\ ~Occurs("LaunchInstaller")
        /\ dest_file = <<>>
        /\ \/ pc = "launch_main" /\ log[Len(log)] = "ShowUpdateDialog"
           \/ pc = "done" /\ FollowedBy("ShowUpdateDialog", "LaunchMainApp")
        /\ (pc = "done" /\ created = <<"main">>) => exit_code = 0

C9_Witness ==
    /\ answer = "failed"
    /\ pc = "done"
    /\ created = <<"main">>
    /\ exit_code = 0

(***************************************************************************)
(* C10.  The exit code is 1 exactly when resolving the launcher's own      *)
(* directory failed or the LaunchMainApp attempt failed, and 0 exactly     *)
(* when the run ended with a successful process creation; no other exit    *)
(* code occurs.                                                            *)
(***************************************************************************)
C10_ExitCodes ==
    /\ pc # "done" => exit_code = -1
    /\ pc = "done" =>
          /\ exit_code \in {0, 1}
          /\ exit_code = 1 <=> (Occurs(AppDirError) \/ Occurs(MainAppError))
          /\ exit_code = 0 <=>
                /\ created # <<>>
                /\ log[Len(log)] \in {"LaunchInstaller", "LaunchMainApp"}

C10_Witness ==
    /\ pc = "done"
    /\ exit_code = 1
    /\ Before(InstallerError, MainAppError)

(***************************************************************************)
(* C11.  Original claim: in every completed run exactly one launch action  *)
(* (one installer launch or one main-app launch, never both and never      *)
(* none) is produced.                                                      *)
(***************************************************************************)
Launches == Count("LaunchInstaller") + Count("LaunchMainApp")

C12_ReleaseConsistent ==
    (pc = "checked" /\ update) =>
        /\ release.version # <<>>
        /\ release.download_url # <<>>
        /\ StrRChr(release.download_url, "/") # 0 =>
              release.filename =
                  SubSeq(release.download_url,
                         StrRChr(release.download_url, "/") + 1,
                         Len(release.download_url))

DWordLeq(a, b) == a.hi < b.hi \/ (a.hi = b.hi /\ a.lo <= b.lo)

C14_ProgressMonotone ==
    \A i, j \in 1..Len(progress) :
        i < j => DWordLeq(progress[i], progress[j])

(***************************************************************************)
(* C15.  If any network step of the feed check fails, CheckForUpdates      *)
(* reports no update, no prompt and no error dialog is shown, no download  *)
(* is attempted, and the run proceeds directly to LaunchMainApp.           *)
(***************************************************************************)
C15_FeedFailure ==
    cfu_fault # "none" =>
        /\ ~update
        /\ release = NoRelease
        /\ \/ pc \in {"checked", "launch_main"} /\ log = <<>>
           \/ pc = "done" /\ log \in {<<"LaunchMainApp">>,
                                      <<"LaunchMainApp", MainAppError>>}

C15_Witness ==
    /\ cfu_fault = "InternetReadFile"
    /\ pc = "done"
    /\ log = <<"LaunchMainApp">>
    /\ version_file = NoFile

(***************************************************************************)
(* C16.  On every exit path of DownloadFile and CheckForUpdates every      *)
(* handle that was opened has been closed exactly once by the time the     *)
(* function returns, and no handle that was never opened is closed.        *)
(***************************************************************************)
C16_HandlesClosed ==
    /\ \A h \in Handles : closes[h] <= opens[h] /\ opens[h] <= 1
    /\ held = {h \in Handles : closes[h] < opens[h]}
    /\ pc = "dl_loop" => held = DlHandles
    /\ pc # "dl_loop" => held = {}
    /\ pc \in {"downloaded", "launch_main", "done"} /\ Occurs("DownloadFile") =>
          \A h \in DlHandles : opens[h] = closes[h] /\
              (opens[h] = 1 <=> h \in DlOpened(dl_fault))
    /\ pc \notin {"start", "read_version", "check"} /\ ~Occurs(AppDirError) =>
          \A h \in CfuHandles : opens[h] = closes[h] /\
              (opens[h] = 1 <=> h \in CfuOpened(cfu_fault))

C16_Witness ==
    /\ pc = "downloaded"
    /\ dl_fault = "InternetReadFile"
    /\ \A h \in DlHandles : opens[h] = 1 /\ closes[h] = 1

(***************************************************************************)
(* C17.  Assuming every blocking call returns and the download source      *)
(* eventually reports end-of-data or failure, every run eventually         *)
(* terminates, and unless resolving the launcher's own directory failed it *)
(* has attempted a launch (installer or main application) before exiting.  *)
(***************************************************************************)
C17_Terminates ==
    /\ <>(pc = "done")
    /\ []((pc = "done" /\ ~Occurs(AppDirError)) => Launches >= 1)
    /\ [](pc = "done" => exit_code \in {0, 1})

C17_Witness ==
    /\ pc = "done"
    /\ Len(delivered) >= 2
    /\ Occurs(DownloadError) \/ Occurs("LaunchInstaller")
    /\ Launches >= 1

(***************************************************************************)
(* C18.  DownloadFile is invoked only after the update check reported an   *)
(* update and the user answered Yes, and LaunchInstaller is attempted only *)
(* after DownloadFile returned success in the same run; neither is reached *)
(* on the no-update, declined or feed-failure paths.                       *)
(***************************************************************************)
C18_Ordering ==
    /\ Occurs("DownloadFile") =>
          /\ update
          /\ cfu_fault = "none"
          /\ answer = "IDYES"
          /\ Count("DownloadFile") = 1
          /\ Before("ShowUpdateDialog", "DownloadFile")
    /\ Occurs("LaunchInstaller") =>
          /\ dl_result
          /\ Before("DownloadFile", "LaunchInstaller")
    /\ (pc \in {"launch_main", "done"}
            /\ (~update \/ answer # "IDYES" \/ cfu_fault # "none")) =>
          ~Occurs("DownloadFile") /\ ~Occurs("LaunchInstaller")

C18_Witness ==
    /\ log = <<"ShowUpdateDialog", "DownloadFile", "LaunchInstaller">>
    /\ answer = "IDYES"
    /\ dl_result

(***************************************************************************)
(* C19.  In every run at most one child process is successfully created:   *)
(* after a successful installer launch the launcher exits without starting *)
(* the main application.                                                   *)
(***************************************************************************)
C19_AtMostOneChild ==
    /\ Len(created) <= 1
    /\ created = <<"installer">> =>
          pc = "done" /\ log[Len(log)] = "LaunchInstaller"

C19_Witness ==
    /\ created = <<"installer">>
    /\ pc = "done"
    /\ exit_code = 0

(***************************************************************************)
(* C20.  Local and remote version normalization agree: if the first line   *)
(* of the version marker file is the feed's tag_name value, each with or   *)
(* without a leading v and the line with or without a line ending, then    *)
(* CheckForUpdates reports no update, also for tags at or beyond the       *)
(* capacity of the version buffer.                                         *)
(***************************************************************************)
TagStart(buf) ==
    LET key   == StrStr(buf, TagNameKey, 1)
        colon == IF key = 0 THEN 0 ELSE StrChr(buf, ":", key)
        quote == IF colon = 0 THEN 0 ELSE StrChr(buf, Q, colon)
    IN  IF quote = 0 THEN 0 ELSE quote + 1

HasTag(buf) == TagStart(buf) # 0 /\ StrChr(buf, Q, TagStart(buf)) # 0

TagOf(buf) == SubSeq(buf, TagStart(buf), StrChr(buf, Q, TagStart(buf)) - 1)

FirstLine(content) ==
    LET nl == StrChr(content, "\n", 1)
    IN  StripLineEnd(SubSeq(content, 1, IF nl = 0 THEN Len(content) ELSE nl))

SameTag ==
    /\ version_file.opens
    /\ version_file.content # <<>>
    /\ HasTag(buffer)
    /\ StripV(FirstLine(version_file.content)) = StripV(TagOf(buffer))

C20_NormalizationAgrees == (pc = "checked" /\ SameTag) => ~update

C20_ShortTagsAgree ==
    (pc = "checked" /\ SameTag /\ Len(TagOf(buffer)) < VersionSize) => ~update

====
